---- MODULE Spec2Model ----
(***************************************************************************)
(* Model of the stylistic extractor pipelines                              *)
(*   src/src/coding_stylistic_extractor.py   (role "code")                 *)
(*   src/src/writing_stylistic_extractor.py  (role "writing")              *)
(* The two files have the same shape; `role` selects the pipeline.         *)
(*                                                                         *)
(* Texts (file contents, prompts, replies) are sequences of tokens, each   *)
(* token a string: a single character, or a fixed piece of template text.  *)
(* An Optional[str] is a sequence of at most one text: None is <<>>, and   *)
(* Some(t) is <<t>>, so the empty text Some(<<>>) differs from None.       *)
(***************************************************************************)
EXTENDS Integers, Sequences, FiniteSets, TLC

VARIABLES
    role,                   \* which of the two source files runs
    root,                   \* the corpus root on disk: "missing", "file", "dir"
    tree,                   \* the files under the root, in rglob traversal order
    max_files,              \* argument of the last scan_repository call
    extensions,             \* argument of the last scan_repository call
    code_files,             \* value returned by the last scan_repository call
    filepaths,              \* argument of the last read_files call
    code_samples,           \* value returned by the last read_files call
    conversation_history,   \* self.conversation_history
    current_draft,          \* self.current_draft
    output_file,            \* content of self.output_file on disk (None: never opened)
    message,                \* reply text read from the last response (message.content[0].text)
    draft,                  \* value returned by the last extraction call (main's `draft`)
    ret,                    \* how the last method call ended
    calls,                  \* number of requests made to the model endpoint
    invoked,                \* the methods invoked so far in this run
    pc,                     \* position of main
    exit                    \* how main ended

vars == << role, root, tree, max_files, extensions, code_files, filepaths,
           code_samples, conversation_history, current_draft, output_file,
           message, draft, ret, calls, invoked, pc, exit >>

-----------------------------------------------------------------------------
(* Bounds of the model *)

MaxTree == 3        \* files under the corpus root
MaxCap == 3         \* largest max_files tried
MaxExts == 2        \* longest list of extension filters
MaxPaths == 3       \* longest list of paths given to read_files
MaxSamples == 2     \* longest list of samples given to extraction
MaxCalls == 3       \* extraction calls on one extractor object

(* Program constants *)

MAX_FILES == 20

-----------------------------------------------------------------------------
(* Values *)

None == <<>>
Some(t) == <<t>>

Roles == {"code", "writing"}
Exts == {".py", ".md", ".txt"}

\* File contents: the empty file, and a file of two lines and three words.
Contents == { <<>>, <<"a", " ", "b", "\n", "c">> }

\* Texts the endpoint may reply with; the empty reply is one of them.
Replies == { <<>>, <<"X">>, <<"X", "Y">> }

Files(E, R, C) == [ext : E, readable : R, content : C]

Trees(E, R, C) == UNION { [1..n -> Files(E, R, C)] : n \in 0..MaxTree }

SeqsUpTo(S, n) == UNION { [1..k -> S] : k \in 0..n }

Prefixes(t) == { SubSeq(t, 1, k) : k \in 0..Len(t) }

-----------------------------------------------------------------------------
(* scan_repository *)

\* Path.rglob(f'*{ext}') yields the files whose name ends with ext.
Matches(file, ext) == file.ext = ext

\* The inner loop: append each match, and break once the running total
\* has reached max_files. The test comes after the append.
RECURSIVE ScanExt(_, _, _, _, _)
ScanExt(t, i, ext, cap, acc) ==
    IF i > Len(t) THEN acc
    ELSE IF Matches(t[i], ext)
         THEN LET found == Append(acc, i)
              IN  IF Len(found) >= cap THEN found
                  ELSE ScanExt(t, i + 1, ext, cap, found)
         ELSE ScanExt(t, i + 1, ext, cap, acc)

\* The outer loop: one traversal per extension; the break above leaves
\* only the inner loop.
RECURSIVE ScanExts(_, _, _, _)
ScanExts(t, exts, cap, acc) ==
    IF exts = <<>> THEN acc
    ELSE ScanExts(t, Tail(exts), cap, ScanExt(t, 1, Head(exts), cap, acc))

DefaultExtensions(r) == IF r = "code" THEN <<".py">> ELSE <<".md", ".txt">>

\* extensions is Optional: None selects the default list.
ScanRepository(r, t, cap, exts) ==
    ScanExts(t, IF exts = None THEN DefaultExtensions(r) ELSE exts[1], cap, <<>>)

-----------------------------------------------------------------------------
(* read_files *)

\* len(content.splitlines()): the newline-terminated segments, and a last
\* segment that is not terminated when it is not empty.
SplitLinesLen(c) ==
    Cardinality({ i \in 1..Len(c) : c[i] = "\n" })
    + (IF c # <<>> /\ c[Len(c)] # "\n" THEN 1 ELSE 0)

IsSpace(ch) == ch \in {" ", "\n"}

\* len(content.split()): the maximal runs of non-whitespace characters.
SplitLen(c) ==
    Cardinality({ i \in 1..Len(c) :
                    /\ ~IsSpace(c[i])
                    /\ (i = 1 \/ IsSpace(c[i - 1])) })

\* str(filepath.relative_to(self.repo_path)); a path is its index in the tree.
RelativePath(t, i) == "f" \o ToString(i) \o t[i].ext

Sample(r, t, i) ==
    IF r = "code"
    THEN [path |-> RelativePath(t, i), content |-> t[i].content,
          lines |-> SplitLinesLen(t[i].content)]
    ELSE [path |-> RelativePath(t, i), content |-> t[i].content,
          words |-> SplitLen(t[i].content)]

\* The loop body: a file that opens and decodes gives one sample; any
\* exception is caught and the file is skipped.
ReadOne(r, t, i, samples) ==
    IF t[i].readable THEN Append(samples, Sample(r, t, i)) ELSE samples

\* Variant: the try encloses the loop, so the first error ends the batch.
RECURSIVE ReadFromUntilError(_, _, _, _)
ReadFromUntilError(r, t, paths, samples) ==
    IF paths = <<>> THEN samples
    ELSE IF ~t[Head(paths)].readable THEN samples
    ELSE ReadFromUntilError(r, t, Tail(paths),
                            ReadOne(r, t, Head(paths), samples))

RECURSIVE ReadFrom(_, _, _, _)
ReadFrom(r, t, paths, samples) ==
    IF paths = <<>> THEN samples
    ELSE ReadFrom(r, t, Tail(paths), ReadOne(r, t, Head(paths), samples))

ReadFiles(r, t, paths) == ReadFrom(r, t, paths, <<>>)

-----------------------------------------------------------------------------
(* extraction: the prompt *)

\* The fixed template text before and after {combined_code}, one token each.
TemplateHead(r) ==
    IF r = "code"
    THEN <<"I want you to analyze these Python files ... Here are my Python code samples:", "\n", "\n">>
    ELSE <<"I want you to analyze these writing samples ... Here are my writing samples:", "\n", "\n">>

TemplateTail(r) ==
    IF r = "code"
    THEN <<"\n", "\n", "Create a markdown document ... for writing ANY Python code in my style.">>
    ELSE <<"\n", "\n", "Create a markdown document ... for producing ANY type of text in my style.">>

\* The f-string of one sample; the fence of three backquotes is one token.
Block(r, sample) ==
    IF r = "code"
    THEN <<"### File: ", sample.path, "\n", "(3 backquotes)python", "\n">>
         \o sample.content \o <<"\n", "(3 backquotes)">>
    ELSE <<"### Sample: ", sample.path, "\n", "\n">> \o sample.content

BlockSeparator == <<"\n", "\n">>

\* Variant: the blocks are joined by a single newline.
RECURSIVE JoinByOneNewline(_, _)
JoinByOneNewline(r, samples) ==
    IF samples = <<>> THEN <<>>
    ELSE IF Len(samples) = 1 THEN Block(r, samples[1])
    ELSE Block(r, samples[1]) \o <<"\n">> \o JoinByOneNewline(r, Tail(samples))

\* "\n\n".join([...])
RECURSIVE Join(_, _)
Join(r, samples) ==
    IF samples = <<>> THEN <<>>
    ELSE IF Len(samples) = 1 THEN Block(r, samples[1])
    ELSE Block(r, samples[1]) \o BlockSeparator \o Join(r, Tail(samples))

Prompt(r, samples) == TemplateHead(r) \o Join(r, samples) \o TemplateTail(r)

-----------------------------------------------------------------------------
(* extraction: the request and the session state *)

Turn(who, text) == [role |-> who, content |-> text]

Returned(op, status, arg) == [op |-> op, status |-> status, arg |-> arg]

\* Variant: the reply is appended before the prompt.
ExtractionStoreReplyFirst(history, prompt, text) ==
    Append(Append(history, Turn("assistant", text)), Turn("user", prompt))

\* The two appends that follow the assignment of current_draft.
ExtractionStore(history, prompt, text) ==
    Append(Append(history, Turn("user", prompt)), Turn("assistant", text))

\* Variant: the user turn is appended before the request is made.
ExtractionRaisesAfterAppend(samples, status) ==
    /\ calls' = calls + 1
    /\ ret' = Returned("extraction", status, None)
    /\ message' = None
    /\ conversation_history' =
           Append(conversation_history, Turn("user", Prompt(role, samples)))
    /\ UNCHANGED << current_draft, draft >>

\* messages.create raises ("raised"), or message.content[0].text cannot be
\* evaluated ("malformed"): the exception leaves extraction before anything
\* is assigned, and nothing catches it.
ExtractionRaises(samples, status) ==
    /\ calls' = calls + 1
    /\ ret' = Returned("extraction", status, None)
    /\ message' = None
    /\ UNCHANGED << conversation_history, current_draft, draft >>

\* The reply text is read: the draft and the two turns are stored. The
\* statistics lines that follow read message.usage; when they raise
\* ("stats_failed") the call fails after the store and returns nothing.
ExtractionStores(samples, status, text) ==
    /\ calls' = calls + 1
    /\ message' = Some(text)
    /\ current_draft' = Some(text)
    /\ conversation_history' =
           ExtractionStore(conversation_history, Prompt(role, samples), text)
    /\ draft' = IF status = "ok" THEN Some(text) ELSE draft
    /\ ret' = Returned("extraction", status, None)

Extraction(samples) ==
    /\ invoked' = invoked \cup {"extraction"}
    /\ \/ \E status \in {"raised", "malformed"} : ExtractionRaises(samples, status)
       \/ \E status \in {"ok", "stats_failed"}, text \in Replies :
              ExtractionStores(samples, status, text)

-----------------------------------------------------------------------------
(* save_draft *)

\* Variant: `if not content` in place of `if content is None`.
SaveDraftUnlessFalsy(arg) ==
    LET content == IF arg = None THEN current_draft ELSE arg
    IN  /\ invoked' = invoked \cup {"save_draft"}
        /\ UNCHANGED << conversation_history, current_draft, message, draft, calls >>
        /\ IF content = None \/ content[1] = <<>>
           THEN /\ ret' = Returned("save_draft", "no_content", arg)
                /\ UNCHANGED output_file
           ELSE \/ /\ ret' = Returned("save_draft", "saved", arg)
                   /\ output_file' = Some(content[1])
                \/ /\ ret' = Returned("save_draft", "open_failed", arg)
                   /\ UNCHANGED output_file
                \/ /\ ret' = Returned("save_draft", "write_failed", arg)
                   /\ \E written \in Prefixes(content[1]) :
                          output_file' = Some(written)

\* Variant: no try around the write, so its exception leaves save_draft.
SaveDraftUncaught(arg) ==
    LET content == IF arg = None THEN current_draft ELSE arg
    IN  /\ invoked' = invoked \cup {"save_draft"}
        /\ UNCHANGED << conversation_history, current_draft, message, draft, calls >>
        /\ IF content = None
           THEN /\ ret' = Returned("save_draft", "no_content", arg)
                /\ UNCHANGED output_file
           ELSE \/ /\ ret' = Returned("save_draft", "saved", arg)
                   /\ output_file' = Some(content[1])
                \/ /\ ret' = Returned("save_draft", "raised", arg)
                   /\ UNCHANGED output_file
                \/ /\ ret' = Returned("save_draft", "raised", arg)
                   /\ \E written \in Prefixes(content[1]) :
                          output_file' = Some(written)

\* open(self.output_file, 'w') truncates the file; f.write(content) and the
\* close then write the text. An exception of either is caught and reported.
SaveDraft(arg) ==
    LET content == IF arg = None THEN current_draft ELSE arg
    IN  /\ invoked' = invoked \cup {"save_draft"}
        /\ UNCHANGED << conversation_history, current_draft, message, draft, calls >>
        /\ IF content = None
           THEN /\ ret' = Returned("save_draft", "no_content", arg)
                /\ UNCHANGED output_file
           ELSE \/ /\ ret' = Returned("save_draft", "saved", arg)
                   /\ output_file' = Some(content[1])
                \/ /\ ret' = Returned("save_draft", "open_failed", arg)
                   /\ UNCHANGED output_file
                \/ /\ ret' = Returned("save_draft", "write_failed", arg)
                   /\ \E written \in Prefixes(content[1]) :
                          output_file' = Some(written)

-----------------------------------------------------------------------------
(* The extractor object and the calls made on it *)

\* __init__: an empty history and no draft.
Construct ==
    /\ conversation_history = <<>>
    /\ current_draft = None

\* What no call has touched yet.
Untouched ==
    /\ max_files = 0
    /\ extensions = None
    /\ code_files = <<>>
    /\ filepaths = <<>>
    /\ code_samples = <<>>
    /\ output_file = None
    /\ message = None
    /\ draft = None
    /\ ret = Returned("none", "none", None)
    /\ calls = 0
    /\ invoked = {}
    /\ exit = "none"

ExtensionLists == {None} \cup { Some(l) : l \in SeqsUpTo(Exts, MaxExts) }

\* A call of scan_repository(max_files=cap, extensions=exts).
ScanCall ==
    \E cap \in 0..MaxCap, exts \in ExtensionLists :
        /\ max_files' = cap
        /\ extensions' = exts
        /\ code_files' = ScanRepository(role, tree, cap, exts)
        /\ ret' = Returned("scan_repository", "ok", None)
        /\ invoked' = invoked \cup {"scan_repository"}
        /\ UNCHANGED << role, root, tree, filepaths, code_samples,
                        conversation_history, current_draft, output_file,
                        message, draft, calls, pc, exit >>

\* A call of read_files(paths), the paths being files under the root.
ReadCall ==
    \E paths \in SeqsUpTo(1..Len(tree), MaxPaths) :
        /\ filepaths' = paths
        /\ code_samples' = ReadFiles(role, tree, paths)
        /\ ret' = Returned("read_files", "ok", None)
        /\ invoked' = invoked \cup {"read_files"}
        /\ UNCHANGED << role, root, tree, max_files, extensions, code_files,
                        conversation_history, current_draft, output_file,
                        message, draft, calls, pc, exit >>

\* A call of extraction on the samples read from the given paths.
ExtractionCall(limit, choices) ==
    /\ calls < limit
    /\ \E paths \in choices :
        /\ filepaths' = paths
        /\ code_samples' = ReadFiles(role, tree, paths)
        /\ Extraction(code_samples')
    /\ UNCHANGED << role, root, tree, max_files, extensions, code_files,
                    output_file, pc, exit >>

\* A call of save_draft(), or of save_draft(content) with a text.
SaveDraftCall ==
    /\ \E arg \in {None, Some(<<"Z">>)} : SaveDraft(arg)
    /\ UNCHANGED << role, root, tree, max_files, extensions, code_files,
                    filepaths, code_samples, pc, exit >>

-----------------------------------------------------------------------------
(* Specification of scan_repository over trees, caps and extension lists *)

InitScan ==
    /\ role \in Roles
    /\ root = "dir"
    /\ tree \in Trees(Exts, {TRUE}, {<<>>})
    /\ pc = "idle"
    /\ Construct
    /\ Untouched

\* The result depends on the tree and the arguments alone, so one call from
\* each initial state covers every call.
ScanOnce == invoked = {} /\ ScanCall

NextScan == ScanOnce

SpecScan == InitScan /\ [][NextScan]_vars

(* Specification of read_files over lists of paths *)

InitRead ==
    /\ role \in Roles
    /\ root = "dir"
    /\ tree \in Trees({DefaultExtensions(role)[1]}, BOOLEAN, Contents)
    /\ pc = "idle"
    /\ Construct
    /\ Untouched

\* As for the scan: the result depends on the tree and the paths alone.
ReadOnce == invoked = {} /\ ReadCall

NextRead == ReadOnce

SpecRead == InitRead /\ [][NextRead]_vars

(* Specification of the prompt built by one extraction call *)

PromptContents == Contents \cup { <<"\n">> }

InitPrompt ==
    /\ role \in Roles
    /\ root = "dir"
    /\ tree \in Trees({DefaultExtensions(role)[1]}, {TRUE}, PromptContents)
    /\ pc = "idle"
    /\ Construct
    /\ Untouched

PromptExtraction == ExtractionCall(1, SeqsUpTo(1..Len(tree), MaxSamples))

NextPrompt == PromptExtraction

SpecPrompt == InitPrompt /\ [][NextPrompt]_vars

(* Specification of one extractor object: any sequence of extraction and
   save_draft calls *)

SessionTree(r) ==
    << [ext |-> DefaultExtensions(r)[1], readable |-> TRUE, content |-> <<>>],
       [ext |-> DefaultExtensions(r)[1], readable |-> TRUE,
        content |-> <<"a", " ", "b", "\n", "c">>] >>

InitSession ==
    /\ role \in Roles
    /\ root = "dir"
    /\ tree = SessionTree(role)
    /\ pc = "idle"
    /\ Construct
    /\ Untouched

SessionExtraction == ExtractionCall(MaxCalls, { <<1>>, <<1, 2>> })

NextSession == SessionExtraction \/ SaveDraftCall

SpecSession == InitSession /\ [][NextSession]_vars

-----------------------------------------------------------------------------
(* main *)

MainKeeps ==
    UNCHANGED << role, root, tree, max_files, extensions, code_files,
                 filepaths, code_samples, conversation_history,
                 current_draft, output_file, message, draft, ret, calls, invoked >>

\* os.makedirs(SKILL_SET_DIR, exist_ok=True); an exception ends the run.
MainMakeDirs ==
    /\ pc = "start"
    /\ \/ pc' = "check_exists" /\ exit' = exit
       \/ pc' = "done" /\ exit' = "crashed"
    /\ MainKeeps

\* if not Path(DIR).exists(): return
MainCheckExists ==
    /\ pc = "check_exists"
    /\ IF root = "missing"
       THEN pc' = "done" /\ exit' = "no_root"
       ELSE pc' = "check_dir" /\ exit' = exit
    /\ MainKeeps

\* if not Path(DIR).is_dir(): return
MainCheckDir ==
    /\ pc = "check_dir"
    /\ IF root # "dir"
       THEN pc' = "done" /\ exit' = "not_dir"
       ELSE pc' = "init" /\ exit' = exit
    /\ MainKeeps

\* extractor_utils = StylisticExtractorUtils(...)
MainInit ==
    /\ pc = "init"
    /\ conversation_history' = <<>>
    /\ current_draft' = None
    /\ pc' = "scan"
    /\ UNCHANGED << role, root, tree, max_files, extensions, code_files,
                    filepaths, code_samples, output_file, message, draft, ret, calls,
                    invoked, exit >>

\* Variant: the return after an empty scan is missing.
MainScanGoesOn ==
    /\ pc = "scan"
    /\ max_files' = MAX_FILES
    /\ extensions' = Some(DefaultExtensions(role))
    /\ code_files' = ScanRepository(role, tree, MAX_FILES, extensions')
    /\ ret' = Returned("scan_repository", "ok", None)
    /\ invoked' = invoked \cup {"scan_repository"}
    /\ pc' = "read"
    /\ exit' = exit
    /\ UNCHANGED << role, root, tree, filepaths, code_samples,
                    conversation_history, current_draft, output_file,
                    message, draft, calls >>

\* Step 1: scan_repository(max_files=MAX_FILES, extensions=[...]), and the
\* return when nothing was found.
MainScan ==
    /\ pc = "scan"
    /\ max_files' = MAX_FILES
    /\ extensions' = Some(DefaultExtensions(role))
    /\ code_files' = ScanRepository(role, tree, MAX_FILES, extensions')
    /\ ret' = Returned("scan_repository", "ok", None)
    /\ invoked' = invoked \cup {"scan_repository"}
    /\ IF code_files' = <<>>
       THEN pc' = "done" /\ exit' = "no_files"
       ELSE pc' = "read" /\ exit' = exit
    /\ UNCHANGED << role, root, tree, filepaths, code_samples,
                    conversation_history, current_draft, output_file, message, draft,
                    calls >>

\* Step 2: read_files(code_files), and the return when nothing was read.
MainRead ==
    /\ pc = "read"
    /\ filepaths' = code_files
    /\ code_samples' = ReadFiles(role, tree, code_files)
    /\ ret' = Returned("read_files", "ok", None)
    /\ invoked' = invoked \cup {"read_files"}
    /\ IF code_samples' = <<>>
       THEN pc' = "done" /\ exit' = "no_samples"
       ELSE pc' = "extract" /\ exit' = exit
    /\ UNCHANGED << role, root, tree, max_files, extensions, code_files,
                    conversation_history, current_draft, output_file, message, draft,
                    calls >>

\* Variant: main catches the error of extraction and goes on to save.
MainExtractionGoesOn ==
    /\ pc = "extract"
    /\ Extraction(code_samples)
    /\ pc' = "save"
    /\ exit' = exit
    /\ UNCHANGED << role, root, tree, max_files, extensions, code_files,
                    filepaths, code_samples, output_file >>

\* Step 3: draft = extraction(code_samples); main catches nothing, so a
\* failed call ends the run.
MainExtraction ==
    /\ pc = "extract"
    /\ Extraction(code_samples)
    /\ IF ret'.status = "ok"
       THEN pc' = "save" /\ exit' = exit
       ELSE pc' = "done" /\ exit' = "extraction_failed"
    /\ UNCHANGED << role, root, tree, max_files, extensions, code_files,
                    filepaths, code_samples, output_file >>

\* Step 4: save_draft()
MainSave ==
    /\ pc = "save"
    /\ SaveDraft(None)
    /\ IF ret'.status = "raised"
       THEN pc' = "done" /\ exit' = "crashed"
       ELSE pc' = "report" /\ exit' = exit
    /\ UNCHANGED << role, root, tree, max_files, extensions, code_files,
                    filepaths, code_samples >>

\* print("... extraction complete")
MainReport ==
    /\ pc = "report"
    /\ pc' = "done"
    /\ exit' = "complete"
    /\ MainKeeps

InitMain ==
    /\ role \in Roles
    /\ root \in {"missing", "file", "dir"}
    /\ tree \in IF root = "dir" THEN Trees(Exts, BOOLEAN, Contents) ELSE { <<>> }
    /\ pc = "start"
    /\ Construct
    /\ Untouched

NextMain ==
    \/ MainMakeDirs
    \/ MainCheckExists
    \/ MainCheckDir
    \/ MainInit
    \/ MainScan
    \/ MainRead
    \/ MainExtraction
    \/ MainSave
    \/ MainReport

SpecMain == InitMain /\ [][NextMain]_vars

\* The process runs on until main returns or an exception ends it.
FairSpecMain == SpecMain /\ WF_vars(NextMain)

-----------------------------------------------------------------------------
(* Properties of scan_repository *)

ScanReturned == ret.op = "scan_repository"

\* C1: for every tree, every non-empty list of extension filters and every
\* max_files >= 0, scan_repository returns at most max_files paths, the
\* cap holding for the combined result across all the extensions.
ScanNeverExceedsMaxFiles ==
    (ScanReturned /\ extensions # None /\ extensions[1] # <<>>)
        => Len(code_files) <= max_files

\* C2: scan_repository called with max_files = 0 returns the empty
\* sequence, whatever the tree holds and whatever extensions are given.
ScanOfZeroIsEmpty ==
    (ScanReturned /\ max_files = 0) => code_files = <<>>

-----------------------------------------------------------------------------
(* Properties of the session state *)

\* Turn i of the history (counted from 1) is a user turn when i is odd and
\* an assistant turn when i is even.
Alternating(history) ==
    \A i \in 1..Len(history) :
        history[i].role = (IF i % 2 = 1 THEN "user" ELSE "assistant")

NoTwoAlike(history) ==
    \A i \in 1..(Len(history) - 1) : history[i].role # history[i + 1].role

IsPrefix(s, t) == Len(s) <= Len(t) /\ SubSeq(t, 1, Len(s)) = s

\* C3: after any sequence of extraction calls, each of which succeeds or
\* fails, the history alternates user, assistant, user, ... starting with
\* user, no two consecutive turns have the same role, and every step keeps
\* the turns already there, in place and unchanged.
HistoryAlternatesAndOnlyGrows ==
    /\ [](Alternating(conversation_history) /\ NoTwoAlike(conversation_history))
    /\ [][IsPrefix(conversation_history, conversation_history')]_vars

\* Two calls stored their turns and a third one failed.
HistoryAfterMixedCalls ==
    /\ Len(conversation_history) = 4
    /\ calls = 3
    /\ ret.status \in {"raised", "malformed", "stats_failed"}

ExtractionStep == calls' = calls + 1 /\ ret'.op = "extraction"

\* C4: an extraction call in which the request raises, or in which the
\* reply text cannot be read, leaves conversation_history and current_draft
\* as they were (on a first call the draft stays None), returns nothing to
\* the caller and makes exactly one request to the endpoint.
FailedExtractionKeepsState ==
    [][(ExtractionStep /\ ret'.status \in {"raised", "malformed"})
         => /\ conversation_history' = conversation_history
            /\ current_draft' = current_draft
            /\ draft' = draft
            /\ message' = None
            /\ calls' = calls + 1]_vars

\* A first call failed on a malformed response: no draft, no turn.
FirstCallFailed ==
    /\ ret = Returned("extraction", "malformed", None)
    /\ calls = 1
    /\ current_draft = None
    /\ conversation_history = <<>>

-----------------------------------------------------------------------------
(* Properties of main *)

EndedEarly ==
    exit \in {"crashed", "no_root", "not_dir", "no_files", "no_samples",
              "extraction_failed"}

EndpointOnlyAfterSamples ==
    /\ (calls > 0 \/ "extraction" \in invoked)
         => /\ root = "dir"
            /\ code_files # <<>>
            /\ code_samples # <<>>
            /\ {"scan_repository", "read_files"} \subseteq invoked
    /\ root = "missing" => (calls = 0 /\ invoked = {})
    /\ ("scan_repository" \in invoked /\ code_files = <<>>)
         => /\ "read_files" \notin invoked
            /\ "extraction" \notin invoked
            /\ calls = 0
            /\ pc = "done"
            /\ exit = "no_files"
    /\ calls <= 1

\* One request was made, on the one sample read from two scanned paths.
EndpointCalledOnReadableFile ==
    /\ calls = 1
    /\ Len(code_files) = 2
    /\ Len(code_samples) = 1

SaveFailed ==
    ret.op = "save_draft" /\ ret.status \in {"open_failed", "write_failed"}

\* C8: when the write fails inside save_draft no error leaves save_draft:
\* current_draft and conversation_history are unchanged, main goes on to
\* its report and ends normally, reporting the extraction as complete.
WriteFailureIsSwallowed ==
    /\ [][(pc = "save" /\ ret'.op = "save_draft"
              /\ ret'.status \notin {"saved", "no_content"})
            => /\ ret'.status \in {"open_failed", "write_failed"}
               /\ current_draft' = current_draft
               /\ conversation_history' = conversation_history
               /\ pc' = "report"
               /\ exit' = "none"]_vars
    /\ [](SaveFailed => exit \in {"none", "complete"})
    /\ (SaveFailed ~> (pc = "done" /\ exit = "complete"))

\* The write failed after the file was opened, and the run ended normally.
CompleteAfterFailedWrite ==
    /\ ret = Returned("save_draft", "write_failed", None)
    /\ pc = "done"
    /\ exit = "complete"
    /\ output_file = Some(<<"X">>)
    /\ current_draft = Some(<<"X", "Y">>)

-----------------------------------------------------------------------------
(* Properties of read_files *)

ReadReturned == ret.op = "read_files"

ReadablePositions ==
    { j \in 1..Len(filepaths) : tree[filepaths[j]].readable }

\* The number of readable paths up to position j of the input.
Rank(j) == Cardinality({ k \in ReadablePositions : k <= j })

\* C7: of N input paths of which k cannot be read, read_files returns N - k
\* samples, the sample of each readable path standing at the rank that path
\* has among the readable paths of the input; an unreadable path neither
\* ends the batch nor removes a later readable path.
LoaderKeepsReadableInOrder ==
    ReadReturned =>
        /\ Len(code_samples)
             = Len(filepaths)
               - Cardinality((1..Len(filepaths)) \ ReadablePositions)
        /\ \A j \in ReadablePositions :
               /\ code_samples[Rank(j)].path = RelativePath(tree, filepaths[j])
               /\ code_samples[Rank(j)].content = tree[filepaths[j]].content

\* Three paths, the first unreadable, the two after it read.
ReadPastUnreadable ==
    /\ ReadReturned
    /\ Len(filepaths) = 3
    /\ ~tree[filepaths[1]].readable
    /\ filepaths[2] # filepaths[3]
    /\ Len(code_samples) = 2

-----------------------------------------------------------------------------
(* Properties of save_draft and of the prompt *)

\* C9: an empty reply is not rejected: extraction returns it, it becomes
\* current_draft and the assistant turn, and a following save_draft() with
\* no argument treats it as a draft and writes the empty text.
EmptyReplyIsADraft ==
    /\ [][(ExtractionStep /\ message' = Some(<<>>))
            => /\ ret'.status \in {"ok", "stats_failed"}
               /\ ret'.status = "ok" => draft' = Some(<<>>)
               /\ current_draft' = Some(<<>>)
               /\ Len(conversation_history') = Len(conversation_history) + 2
               /\ conversation_history'[Len(conversation_history')]
                    = Turn("assistant", <<>>)]_vars
    /\ [][(ret'.op = "save_draft" /\ ret'.arg = None
              /\ current_draft = Some(<<>>))
            => /\ ret'.status # "no_content"
               /\ ret'.status = "saved" => output_file' = Some(<<>>)]_vars

\* The endpoint replied with the empty text and save_draft() wrote it.
EmptyDraftSaved ==
    /\ ret = Returned("save_draft", "saved", None)
    /\ current_draft = Some(<<>>)
    /\ message = Some(<<>>)
    /\ output_file = Some(<<>>)

Stored == ret.op = "extraction" /\ ret.status \in {"ok", "stats_failed"}

LastPrompt == conversation_history[Len(conversation_history) - 1].content

Label(r) == IF r = "code" THEN "### File: " ELSE "### Sample: "

BlockLen(r, sample) ==
    Len(sample.content) + (IF r = "code" THEN 7 ELSE 4)

\* Position in the prompt of the first token of block k.
RECURSIVE BlockStart(_, _, _)
BlockStart(r, samples, k) ==
    IF k = 1 THEN Len(TemplateHead(r)) + 1
    ELSE BlockStart(r, samples, k - 1) + BlockLen(r, samples[k - 1])
         + Len(BlockSeparator)

Piece(p, at, n) == SubSeq(p, at, at + n - 1)

\* Block of `sample` found at position `at` of prompt p: the label, the
\* relative path, and the whole content between the fixed tokens.
BlockAt(p, r, sample, at) ==
    LET n == Len(sample.content)
    IN  /\ p[at] = Label(r)
        /\ p[at + 1] = sample.path
        /\ IF r = "code"
           THEN /\ Piece(p, at + 2, 3) = <<"\n", "(3 backquotes)python", "\n">>
                /\ Piece(p, at + 5, n) = sample.content
                /\ Piece(p, at + 5 + n, 2) = <<"\n", "(3 backquotes)">>
           ELSE /\ Piece(p, at + 2, 2) = <<"\n", "\n">>
                /\ Piece(p, at + 4, n) = sample.content

\* C10: the prompt sent by extraction is the template head, then one
\* labeled block per sample in the order of the samples, each with the
\* sample's relative path and whole content, two newlines between
\* neighbouring blocks, then the template tail, and nothing else.
PromptHoldsEachSampleOnce ==
    Stored =>
        LET p == LastPrompt
            r == role
            n == Len(code_samples)
            last == IF n = 0 THEN Len(TemplateHead(r))
                    ELSE BlockStart(r, code_samples, n)
                         + BlockLen(r, code_samples[n]) - 1
        IN  /\ Len(p) = last + Len(TemplateTail(r))
            /\ Piece(p, 1, Len(TemplateHead(r))) = TemplateHead(r)
            /\ Piece(p, last + 1, Len(TemplateTail(r))) = TemplateTail(r)
            /\ \A k \in 1..n :
                   BlockAt(p, r, code_samples[k], BlockStart(r, code_samples, k))
            /\ \A k \in 1..(n - 1) :
                   Piece(p, BlockStart(r, code_samples, k + 1) - 2, 2)
                     = <<"\n", "\n">>

\* A prompt was built from two different samples, the first not empty.
PromptOfTwoSamples ==
    /\ Stored
    /\ Len(code_samples) = 2
    /\ code_samples[1].path # code_samples[2].path
    /\ code_samples[1].content # <<>>

-----------------------------------------------------------------------------
(* Properties of the history and the current draft together *)

LastTurn == conversation_history[Len(conversation_history)]

\* The two turns of a call: the prompt sent, then the reply received.
Exchange(prompt, text) == << Turn("user", prompt), Turn("assistant", text) >>

\* C11: after any sequence of extraction calls the history holds exactly
\* two turns per successful call, the prompt sent and then the reply
\* received, in call order (a call that returns adds its two turns at the
\* end, a call that fails adds none); current_draft is None exactly when the
\* history is empty, and otherwise is the content of the last turn, an
\* assistant turn; every earlier draft stays as the content of an assistant
\* turn.
TwoTurnsPerSuccessfulCall ==
    /\ [](/\ current_draft = None <=> conversation_history = <<>>
          /\ conversation_history # <<>>
               => LastTurn = Turn("assistant", current_draft[1]))
    /\ [][ExtractionStep
            => /\ conversation_history'
                    = IF ret'.status = "ok"
                      THEN conversation_history
                           \o Exchange(Prompt(role, code_samples'), draft'[1])
                      ELSE conversation_history
               /\ current_draft # None
                    => \E i \in 1..Len(conversation_history) :
                           conversation_history'[i]
                             = Turn("assistant", current_draft[1])]_vars

====
